---- MODULE Spec2Model ----
(***************************************************************************)
(* EmojiGAN notebook (src/emojigan.ipynb.ipynb): the image loader          *)
(* get_images and the adversarial training loop train_gan, with the model  *)
(* construction that precedes it (build_discriminator, build_generator,    *)
(* build_gan) and the checkpoint writer save_data.                         *)
(*                                                                         *)
(* Keras is an opaque collaborator.  What the loop relies on is modelled:  *)
(*   - compile() records the weights that are trainable at that moment;    *)
(*     train_on_batch updates exactly the recorded weights;                *)
(*   - train_on_batch returns a loss that may be finite or not;            *)
(*   - predict updates nothing;                                            *)
(*   - Image.save may raise an I/O error.                                  *)
(* Weights are version counters: an update adds one.                       *)
(***************************************************************************)
EXTENDS Integers, Sequences, FiniteSets, TLC

\* ---------------------------------------------------------------- bounds
MaxIterations == 3
MaxBatch == 2
MaxInterval == 2
MaxFiles == 2
MaxDim == 2

\* ------------------------------------------------------------- constants
\* Learning rates in units of 1e-5 (lr_d = 0.00002, lr_g = 0.0008).
LrD == 2
LrG == 80
\* A label of 1.0 in units of 1e-4 (np.ones).
LabelOne == 10000
\* The noise factor 0.05 in units of 1e-2; a draw r (hundredths of
\* np.random.random, which lies in [0, 1)) adds NoiseAmp * r units of 1e-4.
NoiseAmp == 5
\* The largest uint8 pixel value, also the divisor of the final scaling.
PixelMax == 255

None == "None"

VARIABLES
    \* arguments of train_gan
    iterations, batch_size, save_intervals, save_dir,
    \* position in the notebook / in train_gan, and the loop variable
    pc, step,
    \* Keras state: discriminator.trainable, the weights each compiled model
    \* updates, the weight versions, the optimizers' learning rates
    d_trainable, d_collected, gan_collected, w, lr,
    \* locals of train_gan
    labels, d_loss, a_loss,
    \* what the run did: the updates in order, each with the loss it returned,
    \* the steps printed, the steps save_data was called at, the files on
    \* disk, the exception raised
    trace, logged, saveCalls, files, error,
    \* get_images: arguments, the glob result, loop position, accumulator,
    \* return value
    height, width, image_list, idx, images, result, load_pc, load_error

trainVars == <<iterations, batch_size, save_intervals, save_dir, pc, step,
               d_trainable, d_collected, gan_collected, w, lr,
               labels, d_loss, a_loss,
               trace, logged, saveCalls, files, error>>
loadVars == <<height, width, image_list, idx, images, result, load_pc, load_error>>
vars == <<trainVars, loadVars>>

\* =======================================================================
\* Model construction (cell 10) and Keras' compile / train_on_batch
\* =======================================================================

\* The weights a compile() records for a model built from the networks in
\* `owners`: the generator's always, the discriminator's only while
\* discriminator.trainable is set.
TrainableWeights(owners, dTrainable) ==
    {o \in owners : o = "G" \/ dTrainable}

\* One optimisation step of a compiled model: every recorded weight moves.
TrainOnBatch(weights, collected) ==
    [o \in DOMAIN weights |-> IF o \in collected THEN weights[o] + 1 ELSE weights[o]]

Losses == {"finite", "nonfinite"}

\* discriminator = build_discriminator(lr=lr_d): a fresh Sequential model is
\* trainable; compile records its weights.
BuildDiscriminator ==
    /\ pc = "build_discriminator"
    /\ d_trainable' = TRUE
    /\ d_collected' = TrainableWeights({"D"}, TRUE)
    /\ lr' = [lr EXCEPT !.d = LrD]
    /\ pc' = "build_generator"
    /\ UNCHANGED <<iterations, batch_size, save_intervals, save_dir, step,
                   gan_collected, w, labels, d_loss, a_loss,
                   trace, logged, saveCalls, files, error>>
    /\ UNCHANGED loadVars

\* generator = build_generator(): not compiled.
BuildGenerator ==
    /\ pc = "build_generator"
    /\ pc' = "build_gan"
    /\ UNCHANGED <<iterations, batch_size, save_intervals, save_dir, step,
                   d_trainable, d_collected, gan_collected, w, lr,
                   labels, d_loss, a_loss,
                   trace, logged, saveCalls, files, error>>
    /\ UNCHANGED loadVars

\* A build_gan that forgets to freeze the discriminator.
BuildGanNoFreeze ==
    /\ pc = "build_gan"
    /\ d_trainable' = d_trainable
    /\ gan_collected' = TrainableWeights({"G", "D"}, d_trainable)
    /\ lr' = [lr EXCEPT !.g = LrG]
    /\ pc' = "loop"
    /\ UNCHANGED <<iterations, batch_size, save_intervals, save_dir, step,
                   d_collected, w, labels, d_loss, a_loss,
                   trace, logged, saveCalls, files, error>>
    /\ UNCHANGED loadVars

\* gan = build_gan(latent_dim, generator, discriminator, lr=lr_g):
\* discriminator.trainable = False, then the chained model is compiled.
BuildGan ==
    /\ pc = "build_gan"
    /\ d_trainable' = FALSE
    /\ gan_collected' = TrainableWeights({"G", "D"}, FALSE)
    /\ lr' = [lr EXCEPT !.g = LrG]
    /\ pc' = "loop"
    /\ UNCHANGED <<iterations, batch_size, save_intervals, save_dir, step,
                   d_collected, w, labels, d_loss, a_loss,
                   trace, logged, saveCalls, files, error>>
    /\ UNCHANGED loadVars

\* =======================================================================
\* train_gan (cell 8) and save_data (cell 7)
\* =======================================================================

\* The draws of np.random.random the model follows, in hundredths: the
\* smallest value of [0, 1) and one next to its open end.
NoiseDraws == {0, 99}

\* labels = np.concatenate([np.ones((batch_size, 1)), np.zeros((batch_size, 1))])
AssembledLabels(b) ==
    [i \in 1..(2 * b) |-> IF i <= b THEN LabelOne ELSE 0]

\* A perturbation that subtracts the noise instead of adding it.
PerturbLabelMinus(l, r) == l - NoiseAmp * r

\* labels += 0.05 * np.random.random(labels.shape), for one label and one draw.
PerturbLabel(l, r) == l + NoiseAmp * r

\* str(step): the decimal digits of a non-negative integer.
DigitChar(d) == <<"0", "1", "2", "3", "4", "5", "6", "7", "8", "9">>[d + 1]
RECURSIVE Str(_)
Str(n) == IF n < 10 THEN <<DigitChar(n)>> ELSE Str(n \div 10) \o <<DigitChar(n % 10)>>

\* 'generated_image' + str(step) + '.png', 'real_image' + str(step) + '.png'
FileName(prefix, s) == <<prefix>> \o Str(s) \o <<".png">>

\* A checkpoint test that is off by one step.
IsSaveStepNext(s, k) == (s + 1) % k = 0

\* step % save_intervals == 0 (save_intervals # 0)
IsSaveStep(s, k) == s % k = 0

\* The body of train_gan's loop with the two updates exchanged.
NextPcGeneratorFirst(p) ==
    CASE p = "predict"  -> "assemble"
      [] p = "assemble" -> "perturb"
      [] p = "perturb"  -> "train_g"
      [] p = "train_g"  -> "train_d"
      [] p = "train_d"  -> "checkpoint"
      [] OTHER          -> "loop"

\* The order of the statements of the loop body.
NextPc(p) ==
    CASE p = "predict"  -> "assemble"
      [] p = "assemble" -> "perturb"
      [] p = "perturb"  -> "train_d"
      [] p = "train_d"  -> "train_g"
      [] p = "train_g"  -> "checkpoint"
      [] OTHER          -> "loop"

\* A loop that runs one iteration too many.
LoopTestOffByOne ==
    /\ pc = "loop"
    /\ pc' = IF step <= iterations THEN "predict" ELSE "done"
    /\ UNCHANGED <<iterations, batch_size, save_intervals, save_dir, step,
                   d_trainable, d_collected, gan_collected, w, lr,
                   labels, d_loss, a_loss,
                   trace, logged, saveCalls, files, error>>
    /\ UNCHANGED loadVars

\* for step in range(iterations): the next value, or the end of the loop
\* and the return of train_gan.
LoopTest ==
    /\ pc = "loop"
    /\ pc' = IF step < iterations THEN "predict" ELSE "done"
    /\ UNCHANGED <<iterations, batch_size, save_intervals, save_dir, step,
                   d_trainable, d_collected, gan_collected, w, lr,
                   labels, d_loss, a_loss,
                   trace, logged, saveCalls, files, error>>
    /\ UNCHANGED loadVars

\* random_latent_vectors = np.random.normal(...);
\* generated_images = generator.predict(random_latent_vectors);
\* real_images = x_train[np.random.randint(0, x_train.shape[0], batch_size)].
\* predict is inference: it touches no weight.
Predict ==
    /\ pc = "predict"
    /\ pc' = NextPc(pc)
    /\ UNCHANGED <<iterations, batch_size, save_intervals, save_dir, step,
                   d_trainable, d_collected, gan_collected, w, lr,
                   labels, d_loss, a_loss,
                   trace, logged, saveCalls, files, error>>
    /\ UNCHANGED loadVars

\* labels = ones for the generated images, zeros for the real ones.
Assemble ==
    /\ pc = "assemble"
    /\ labels' = AssembledLabels(batch_size)
    /\ pc' = NextPc(pc)
    /\ UNCHANGED <<iterations, batch_size, save_intervals, save_dir, step,
                   d_trainable, d_collected, gan_collected, w, lr,
                   d_loss, a_loss,
                   trace, logged, saveCalls, files, error>>
    /\ UNCHANGED loadVars

\* labels += 0.05 * np.random.random(labels.shape): one draw per label.
Perturb ==
    /\ pc = "perturb"
    /\ \E noise \in [1..Len(labels) -> NoiseDraws] :
          labels' = [i \in 1..Len(labels) |-> PerturbLabel(labels[i], noise[i])]
    /\ pc' = NextPc(pc)
    /\ UNCHANGED <<iterations, batch_size, save_intervals, save_dir, step,
                   d_trainable, d_collected, gan_collected, w, lr,
                   d_loss, a_loss,
                   trace, logged, saveCalls, files, error>>
    /\ UNCHANGED loadVars

\* d_loss = discriminator.train_on_batch(combined_images, labels)
TrainDiscriminator ==
    /\ pc = "train_d"
    /\ w' = TrainOnBatch(w, d_collected)
    /\ \E l \in Losses :
          /\ d_loss' = l
          /\ trace' = Append(trace, [net |-> "D", loss |-> l])
    /\ pc' = NextPc(pc)
    /\ UNCHANGED <<iterations, batch_size, save_intervals, save_dir, step,
                   d_trainable, d_collected, gan_collected, lr,
                   labels, a_loss,
                   logged, saveCalls, files, error>>
    /\ UNCHANGED loadVars

\* A generator update that puts the discriminator back to trainable.
TrainGanRestoring ==
    /\ pc = "train_g"
    /\ w' = TrainOnBatch(w, gan_collected)
    /\ \E l \in Losses :
          /\ a_loss' = l
          /\ trace' = Append(trace, [net |-> "G", loss |-> l])
    /\ d_trainable' = TRUE
    /\ pc' = NextPc(pc)
    /\ UNCHANGED <<iterations, batch_size, save_intervals, save_dir, step,
                   d_collected, gan_collected, lr,
                   labels, d_loss,
                   logged, saveCalls, files, error>>
    /\ UNCHANGED loadVars

\* random_latent_vectors = np.random.normal(...);
\* misleading_targets = np.zeros((batch_size, 1));
\* a_loss = gan.train_on_batch(random_latent_vectors, misleading_targets)
TrainGan ==
    /\ pc = "train_g"
    /\ w' = TrainOnBatch(w, gan_collected)
    /\ \E l \in Losses :
          /\ a_loss' = l
          /\ trace' = Append(trace, [net |-> "G", loss |-> l])
    /\ pc' = NextPc(pc)
    /\ UNCHANGED <<iterations, batch_size, save_intervals, save_dir, step,
                   d_trainable, d_collected, gan_collected, lr,
                   labels, d_loss,
                   logged, saveCalls, files, error>>
    /\ UNCHANGED loadVars

\* What the two img.save calls of save_data can do: both succeed, the first
\* raises, or the first succeeds and the second raises.
IoOutcomes == {"ok", "fail_generated", "fail_real"}

\* save_data(step, generated_images, real_images, save_dir): the files it
\* leaves on disk under outcome io.
SaveData(s, io) ==
    CASE io = "ok"             -> {FileName("generated_image", s), FileName("real_image", s)}
      [] io = "fail_generated" -> {}
      [] io = "fail_real"      -> {FileName("generated_image", s)}

\* if step % save_intervals == 0: print step and both losses; if save_dir is
\* not None, save_data(...).  A zero save_intervals makes the modulo raise
\* ZeroDivisionError; an exception of img.save is not caught and leaves
\* train_gan.  Otherwise the loop goes on to its next value.
Checkpoint ==
    /\ pc = "checkpoint"
    /\ IF save_intervals = 0
       THEN /\ pc' = "raised"
            /\ error' = "ZeroDivisionError"
            /\ UNCHANGED <<step, logged, saveCalls, files>>
       ELSE IF IsSaveStep(step, save_intervals)
       THEN /\ logged' = logged \cup {step}
            /\ IF save_dir # None
               THEN \E io \in IoOutcomes :
                       /\ saveCalls' = saveCalls \cup {step}
                       /\ files' = files \cup SaveData(step, io)
                       /\ IF io = "ok"
                          THEN /\ pc' = NextPc(pc)
                               /\ step' = step + 1
                               /\ UNCHANGED error
                          ELSE /\ pc' = "raised"
                               /\ error' = "IOError"
                               /\ UNCHANGED step
               ELSE /\ pc' = NextPc(pc)
                    /\ step' = step + 1
                    /\ UNCHANGED <<saveCalls, files, error>>
       ELSE /\ pc' = NextPc(pc)
            /\ step' = step + 1
            /\ UNCHANGED <<logged, saveCalls, files, error>>
    /\ UNCHANGED <<iterations, batch_size, save_intervals, save_dir,
                   d_trainable, d_collected, gan_collected, w, lr,
                   labels, d_loss, a_loss, trace>>
    /\ UNCHANGED loadVars

\* The state get_images is left in while the training specification runs.
LoadIdle ==
    /\ height = 1 /\ width = 1 /\ image_list = <<>> /\ idx = 1
    /\ images = <<>> /\ result = <<>> /\ load_pc = "idle" /\ load_error = "none"

\* The notebook before cell 10 builds the models; train_gan's arguments are
\* chosen here.
Init ==
    /\ iterations \in 0..MaxIterations
    /\ batch_size \in 1..MaxBatch
    /\ save_intervals \in 0..MaxInterval
    /\ save_dir \in {None, "./data/emoji_output"}
    /\ pc = "build_discriminator"
    /\ step = 0
    /\ d_trainable = FALSE
    /\ d_collected = {}
    /\ gan_collected = {}
    /\ w = [D |-> 0, G |-> 0]
    /\ lr = [d |-> 0, g |-> 0]
    /\ labels = <<>>
    /\ d_loss = None
    /\ a_loss = None
    /\ trace = <<>>
    /\ logged = {}
    /\ saveCalls = {}
    /\ files = {}
    /\ error = "none"
    /\ LoadIdle

Next ==
    \/ BuildDiscriminator
    \/ BuildGenerator
    \/ BuildGan
    \/ LoopTest
    \/ Predict
    \/ Assemble
    \/ Perturb
    \/ TrainDiscriminator
    \/ TrainGan
    \/ Checkpoint

Spec == Init /\ [][Next]_vars

\* The notebook runs its cells and train_gan's statements one after the other
\* without waiting for anything: a statement that can run does run.
FairSpec == Spec /\ WF_vars(Next)

\* =======================================================================
\* get_images (cell 3) and remove_transparency (cell 2)
\* =======================================================================

\* What cv2.imread(path, -1) gives for a matched file: None for a file that
\* cannot be read or decoded (readable = FALSE), otherwise an array of
\* rows x cols pixels.  The model follows images of one colour: px is the
\* pixel, B, G, R and, for a 4-channel image, A.
Unreadable == [readable |-> FALSE, rows |-> 0, cols |-> 0, px |-> <<>>]
SourceShapes == {<<1, 2>>, <<2, 1>>}
SourcePixels == {<<0, 128, 255>>, <<33, 200, 255, 255>>, <<33, 200, 255, 0>>}
SourceFiles ==
    {Unreadable} \cup
    {[readable |-> TRUE, rows |-> sh[1], cols |-> sh[2], px |-> p] :
        sh \in SourceShapes, p \in SourcePixels}

\* Channel values c for which the double arithmetic of remove_transparency,
\* (c * (1 / 255.0)) * 1.0 * 255.0, falls just below c, so that np.uint8
\* truncates it to c - 1 (fully opaque pixels).
TruncatedBelow ==
    {33, 37, 41, 45, 49, 53, 57, 61, 66, 74, 82, 90, 98, 106, 114, 122,
     132, 148, 164, 180, 196, 212, 228, 244}

\* remove_transparency for one channel value c under alpha a (0 or 255) and
\* background bg: np.uint8(bg * (1 - a/255) + c * (a/255)).
BlendChannel(c, a, bg) ==
    LET exact == (bg * (PixelMax - a) + c * a) \div PixelMax
    IN  IF a = PixelMax /\ c \in TruncatedBelow THEN exact - 1 ELSE exact

\* remove_transparency(source, background_color) on the pixel.
RemoveTransparency(px, bg) ==
    [i \in 1..3 |-> BlendChannel(px[i], px[4], bg)]

\* cv2.cvtColor(img, cv2.COLOR_BGR2RGB)
CvtColorBGR2RGB(px) == <<px[3], px[2], px[1]>>

\* A resize that takes its arguments as (rows, cols).
ResizeRowsFirst(img, a, b) == [img EXCEPT !.rows = a, !.cols = b]

\* cv2.resize(img, dsize) with dsize = (a, b): dsize is (width, height), so
\* the result has b rows and a columns.
Resize(img, a, b) == [img EXCEPT !.rows = b, !.cols = a]

\* np.asarray(images) / 255.: per image its shape and its pixel as
\* fractions num/den.
Scaled(imgs) ==
    [i \in 1..Len(imgs) |->
        [shape |-> <<imgs[i].rows, imgs[i].cols, Len(imgs[i].px)>>,
         num   |-> imgs[i].px,
         den   |-> PixelMax]]

\* A loop body that skips a file imread could not read.
LoadOneSkipping ==
    /\ load_pc = "loop"
    /\ idx <= Len(image_list)
    /\ LET img == image_list[idx] IN
       IF ~img.readable
       THEN /\ idx' = idx + 1
            /\ UNCHANGED <<images, load_pc, load_error>>
       ELSE LET opaque == IF Len(img.px) = 4
                          THEN [img EXCEPT !.px = RemoveTransparency(img.px, PixelMax)]
                          ELSE img
                rgb    == [opaque EXCEPT !.px = CvtColorBGR2RGB(opaque.px)]
            IN  /\ images' = Append(images, Resize(rgb, height, width))
                /\ idx' = idx + 1
                /\ UNCHANGED <<load_pc, load_error>>
    /\ UNCHANGED <<height, width, image_list, result>>
    /\ UNCHANGED trainVars

\* One pass of `for image_path in image_list`: imread; img.shape[2] on None
\* raises AttributeError and leaves get_images; otherwise the transparency
\* is removed from a 4-channel image, the channels are reordered, the image
\* is resized with dsize = (height, width) and appended.
LoadOne ==
    /\ load_pc = "loop"
    /\ idx <= Len(image_list)
    /\ LET img == image_list[idx] IN
       IF ~img.readable
       THEN /\ load_pc' = "raised"
            /\ load_error' = "AttributeError"
            /\ UNCHANGED <<idx, images>>
       ELSE LET opaque == IF Len(img.px) = 4
                          THEN [img EXCEPT !.px = RemoveTransparency(img.px, PixelMax)]
                          ELSE img
                rgb    == [opaque EXCEPT !.px = CvtColorBGR2RGB(opaque.px)]
            IN  /\ images' = Append(images, Resize(rgb, height, width))
                /\ idx' = idx + 1
                /\ UNCHANGED <<load_pc, load_error>>
    /\ UNCHANGED <<height, width, image_list, result>>
    /\ UNCHANGED trainVars

\* images = np.asarray(images) / 255.; return images
LoadReturn ==
    /\ load_pc = "loop"
    /\ idx > Len(image_list)
    /\ result' = Scaled(images)
    /\ load_pc' = "returned"
    /\ UNCHANGED <<height, width, image_list, idx, images, load_error>>
    /\ UNCHANGED trainVars

RECURSIVE SeqsUpTo(_, _)
SeqsUpTo(S, n) ==
    IF n = 0 THEN {<<>>}
    ELSE LET shorter == SeqsUpTo(S, n - 1)
         IN  shorter \cup {Append(q, x) : q \in shorter, x \in S}

\* The state the training loop is left in while the loader specification runs.
TrainIdle ==
    /\ iterations = 0 /\ batch_size = 1 /\ save_intervals = 1 /\ save_dir = None
    /\ pc = "idle" /\ step = 0
    /\ d_trainable = FALSE /\ d_collected = {} /\ gan_collected = {}
    /\ w = [D |-> 0, G |-> 0] /\ lr = [d |-> 0, g |-> 0]
    /\ labels = <<>> /\ d_loss = None /\ a_loss = None
    /\ trace = <<>> /\ logged = {} /\ saveCalls = {} /\ files = {}
    /\ error = "none"

\* get_images(image_dir, height, width) after image_list = glob.glob(image_dir)
\* and images = [].
LoadInit ==
    /\ height \in 1..MaxDim
    /\ width \in 1..MaxDim
    /\ image_list \in SeqsUpTo(SourceFiles, MaxFiles)
    /\ idx = 1
    /\ images = <<>>
    /\ result = <<>>
    /\ load_pc = "loop"
    /\ load_error = "none"
    /\ TrainIdle

LoadNext ==
    \/ LoadOne
    \/ LoadReturn

LoadSpec == LoadInit /\ [][LoadNext]_vars

\* =======================================================================
\* Properties
\* =======================================================================

\* The positions inside train_gan.
InLoopBody == pc \in {"predict", "assemble", "perturb", "train_d", "train_g", "checkpoint"}
InTrainGan == InLoopBody \/ pc \in {"loop", "done", "raised"}
Terminated == pc \in {"done", "raised"}

\* The number of updates of one network so far.
NumUpdates(net) == Cardinality({i \in 1..Len(trace) : trace[i].net = net})

\* C1: in every iteration the discriminator update comes before the
\* generator update, no generator update happens between the start of an
\* iteration and its discriminator update, and over the whole run the
\* updates alternate D, G, D, G, ...
C1_DiscriminatorBeforeGenerator ==
    /\ \A i \in 1..Len(trace) :
          trace[i].net = IF i % 2 = 1 THEN "D" ELSE "G"
    /\ pc \in {"predict", "assemble", "perturb", "train_d"} => Len(trace) = 2 * step
    /\ pc = "train_g" => Len(trace) = 2 * step + 1
    /\ pc = "checkpoint" => Len(trace) = 2 * step + 2

\* Two full iterations have run: D, G, D, G.
C1_Witness ==
    /\ Len(trace) = 4
    /\ pc = "checkpoint"
    /\ step = 1

\* C2: the generator update through the combined model leaves the
\* discriminator's weights unchanged (and moves the generator's), the
\* discriminator update leaves the generator's weights unchanged (and moves
\* the discriminator's), and generator.predict changes no weight.
C2_UpdatesOwnWeightsOnly ==
    [][ /\ (pc = "train_g" /\ pc' # pc) => (w'.D = w.D /\ w'.G = w.G + 1)
        /\ (pc = "train_d" /\ pc' # pc) => (w'.G = w.G /\ w'.D = w.D + 1)
        /\ (pc = "predict" /\ pc' # pc) => w' = w ]_vars

\* Both networks have been updated twice, each by its own step only.
C2_Witness ==
    /\ pc = "checkpoint"
    /\ step = 1
    /\ w = [D |-> 2, G |-> 2]

\* C3 as stated: at every discriminator update of train_gan the
\* discriminator's trainable flag is set (it was restored after the
\* generator update).
C3_Original ==
    pc = "train_d" => d_trainable = TRUE

\* C3 as amended: build_gan clears the discriminator's trainable flag once
\* and train_gan never sets it again; throughout train_gan the flag is
\* clear, the discriminator's own compiled model still updates the
\* discriminator's weights, and the combined model does not.
C3_Amended ==
    InTrainGan =>
        /\ d_trainable = FALSE
        /\ d_collected = {"D"}
        /\ "D" \notin gan_collected

\* The discriminator update of the second iteration is about to run, after a
\* generator update, with the flag still clear.
C3_Witness ==
    /\ pc = "train_d"
    /\ step = 1
    /\ d_trainable = FALSE
    /\ NumUpdates("G") = 1

\* Whether the exception that ended train_gan came out of a framework call
\* (img.save) rather than out of train_gan's own arithmetic.
FrameworkRaised == error = "IOError"

\* train_gan has returned after exactly `iterations` passes, each with one
\* discriminator and one generator update; with no pass, nothing happened.
ExactlyNIterations ==
    /\ pc = "done"
    /\ step = iterations
    /\ NumUpdates("D") = iterations
    /\ NumUpdates("G") = iterations
    /\ Len(trace) = 2 * iterations
    /\ iterations = 0 =>
          (trace = <<>> /\ logged = {} /\ saveCalls = {} /\ files = {})

\* C4 as stated: for every iteration count, when no framework call raises,
\* train_gan ends after exactly N iterations with N discriminator and N
\* generator updates, and with N = 0 nothing is updated or checkpointed.
C4_Original ==
    (Terminated /\ ~FrameworkRaised) => ExactlyNIterations

\* C4 as amended: the same for every non-zero checkpoint interval (and for
\* N = 0); the run also does end, and never makes more than N updates of
\* either network.
C4_Amended ==
    /\ [](/\ (Terminated /\ ~FrameworkRaised /\ (save_intervals # 0 \/ iterations = 0))
               => ExactlyNIterations
          /\ NumUpdates("D") <= iterations
          /\ NumUpdates("G") <= iterations)
    /\ <>Terminated

\* A run of the largest iteration count has returned.
C4_Witness ==
    /\ pc = "done"
    /\ iterations = 3
    /\ save_intervals # 0
    /\ NumUpdates("D") = 3
    /\ NumUpdates("G") = 3

\* The steps below n that are multiples of the interval k.
MultiplesBelow(n, k) == {s \in 0..(n - 1) : s % k = 0}

\* C5: with interval k >= 1, the losses are logged exactly at the steps
\* s < N with s mod k = 0; with a save directory save_data is called at
\* exactly those steps, after both updates of the step, and leaves exactly
\* generated_image<s>.png and real_image<s>.png; without one no file is
\* written.  (Stated for every point of a run that has not raised: `step`
\* passes are complete; at the return step = N.)
C5_CheckpointSteps ==
    /\ (save_intervals >= 1 /\ InTrainGan /\ error = "none") =>
          /\ logged = MultiplesBelow(step, save_intervals)
          /\ saveCalls = IF save_dir = None THEN {} ELSE logged
          /\ files = UNION {{FileName("generated_image", s), FileName("real_image", s)} :
                               s \in saveCalls}
          /\ pc = "done" => logged = MultiplesBelow(iterations, save_intervals)
    /\ \A s \in logged \cup saveCalls :
          /\ NumUpdates("D") >= s + 1
          /\ NumUpdates("G") >= s + 1

\* Three iterations with interval 2 and a save directory: steps 0 and 2 were
\* checkpointed, four files are on disk.
C5_Witness ==
    /\ pc = "done"
    /\ iterations = 3
    /\ save_intervals = 2
    /\ save_dir # None
    /\ saveCalls = {0, 2}
    /\ Cardinality(files) = 4

\* C6: once an update has returned a non-finite loss, no further update runs
\* unless a learning rate has been lowered.
C6_NonFiniteLossStopsUpdates ==
    \A i \in 1..Len(trace) :
        (trace[i].loss = "nonfinite" /\ i < Len(trace)) =>
            (lr.d < LrD \/ lr.g < LrG)

\* C7: when save_data fails with an I/O error, train_gan still performs the
\* updates of all its N steps.
C7_SaveFailureNotFatal ==
    (Terminated /\ error = "IOError") =>
        (NumUpdates("D") = iterations /\ NumUpdates("G") = iterations)

\* C8 as stated: every label handed to the discriminator update lies in
\* [0, 1].
C8_Original ==
    pc = "train_d" =>
        \A i \in 1..Len(labels) : 0 <= labels[i] /\ labels[i] <= LabelOne

\* C8 as amended: of the 2 * batch_size labels handed to the discriminator
\* update, each "real" label lies in [0, 0.05) and each "fake" label in
\* [1, 1.05).
C8_Amended ==
    pc = "train_d" =>
        /\ Len(labels) = 2 * batch_size
        /\ \A i \in 1..Len(labels) :
              IF i <= batch_size
              THEN LabelOne <= labels[i] /\ labels[i] < LabelOne + NoiseAmp * 100
              ELSE 0 <= labels[i] /\ labels[i] < NoiseAmp * 100

\* A batch whose first "fake" label got noise and whose last "real" label
\* got none is about to be handed to the discriminator.
C8_Witness ==
    /\ pc = "train_d"
    /\ batch_size = 2
    /\ labels[1] > LabelOne
    /\ labels[4] = 0

\* Whether a fraction num/den lies in [0, 1].
InUnitInterval(num, den) == 0 <= num /\ num <= den

\* C9: every image of the array get_images returns has shape
\* (height, width, 3) and values in [0, 1].
C9_ShapeAndRange ==
    load_pc = "returned" =>
        \A i \in 1..Len(result) :
            /\ result[i].shape = <<height, width, 3>>
            /\ \A c \in 1..3 : InUnitInterval(result[i].num[c], result[i].den)

\* The matched files imread cannot read.
BadFiles == {i \in 1..Len(image_list) : ~image_list[i].readable}
FirstBad == CHOOSE i \in BadFiles : \A j \in BadFiles : i <= j

\* C10: when any matched file is unreadable, wherever it stands, get_images
\* returns nothing: it never gets past the first such file, and it ends by
\* raising there.
C10_FailFast ==
    BadFiles # {} =>
        /\ load_pc # "returned"
        /\ result = <<>>
        /\ idx <= FirstBad
        /\ Len(images) < FirstBad
        /\ load_pc = "raised" => (idx = FirstBad /\ load_error = "AttributeError")

\* The load was aborted at an unreadable second file, with the first one
\* already read.
C10_Witness ==
    /\ load_pc = "raised"
    /\ idx = 2
    /\ Len(images) = 1
    /\ Len(image_list) = 2

====
